---- MODULE Spec2Model ----
(***************************************************************************)
(* Model of DIHE-clust.py: a batch script that reads a trajectory (or a    *)
(* pre-computed dihedral table), computes dihedral time series, clips and  *)
(* converts them, estimates the intrinsic dimension and clusters.          *)
(*                                                                         *)
(* Numbers.  A float that holds an angle in degrees is an integer number   *)
(* of half micro-degrees (DEG == 2000000 units per degree): the float      *)
(* rounded to the nearest 5e-7 degree.  The unit is fine enough that the   *)
(* rounding of '%.4f' and the float effects of lines 29-30 are decided by  *)
(* the held value.  Inf, -Inf and NaN are the floats inf, -inf and nan;    *)
(* a finite float of magnitude 1000 or more is beyond the range and is     *)
(* held as Inf or -Inf.  Radians are integers in 1e-6 radian.  Atom        *)
(* coordinates are integers.  Intrinsic-dimension estimates are integers   *)
(* in tenths.                                                              *)
(* Array indices are the 0-based indices of the script; sequences of the   *)
(* model are 1-based, so element k of an array is data[k + 1].             *)
(***************************************************************************)
EXTENDS Integers, Sequences, FiniteSets, TLC

VARIABLES
    pc,           \* position in the script
    exit_code,    \* -1 while running, else the process exit status
    error,        \* "" or the kind of the error that ended the run
    args,         \* the parsed command line (argparse Namespace)
    fs_input,     \* the file named by --input
    fs_dihelist,  \* the file named by --dihelist
    fs_out,       \* the file 'dihetraj.dat'
    file_format, ID, visualize, halo, z_value,
    coordinates, nsteps, natoms,
    dihelist, ndihe, dihetraj, i,
    ids_2nn, ids_gride,
    d_dihedrals,  \* the dadapy Data object
    n_clusters,
    log           \* history of the run: files opened, calls made

vars == <<pc, exit_code, error, args, fs_input, fs_dihelist, fs_out,
          file_format, ID, visualize, halo, z_value, coordinates, nsteps,
          natoms, dihelist, ndihe, dihetraj, i, ids_2nn, ids_gride,
          d_dihedrals, n_clusters, log>>

(***************************************************************************)
(* Number representation                                                   *)
(***************************************************************************)
\* One degree, in the model's angle unit (5e-7 degree).
DEG == 2000000

\* The float inf (the token 'inf' of a table); -Inf is -inf.
Inf == 2000000000

\* The float NaN (0/0 of line 29, and the token 'nan' of a table).
NaN == 2100000000

Abs(x) == IF x < 0 THEN -x ELSE x

RECURSIVE GCD(_, _)
GCD(a, b) == IF b = 0 THEN a ELSE GCD(b, a % b)

Min2(a, b) == IF a <= b THEN a ELSE b

Max2(a, b) == IF a >= b THEN a ELSE b

(***************************************************************************)
(* numpy arrays: [ndim, data].  ndim = 2: data is a sequence of rows;      *)
(* ndim = 1: a sequence of scalars; ndim = 0: data is <<scalar>>.          *)
(* ndim = -1 stands for a name not yet bound.                              *)
(***************************************************************************)
Unbound == [ndim |-> -1, data |-> <<>>]

Array2(rows) == [ndim |-> 2, data |-> rows]

Array1(xs) == [ndim |-> 1, data |-> xs]

Array0(x) == [ndim |-> 0, data |-> <<x>>]

\* len(np.shape(a))
ShapeLen(a) == a.ndim

\* len(a): the first dimension; a 0-d array has no len() (TypeError).
HasLen(a) == a.ndim >= 1

PyLen(a) == Len(a.data)

(***************************************************************************)
(* calculate_dihedral, lines 11-35                                         *)
(***************************************************************************)
\* B - A on 3-vectors (lines 19-21)
VSub(p, q) == <<p[1] - q[1], p[2] - q[2], p[3] - q[3]>>

\* np.cross (lines 23-24)
Cross(a, b) ==
    <<a[2] * b[3] - a[3] * b[2], a[3] * b[1] - a[1] * b[3], a[1] * b[2] - a[2] * b[1]>>

\* np.dot (line 29)
Dot(a, b) == a[1] * b[1] + a[2] * b[2] + a[3] * b[3]

\* np.degrees(np.arccos(c)) for 0 < c < 1 given as c^2 = num/den in lowest
\* terms, in units of 5e-7 degree, tabulated at every argument that atom
\* coordinates in -1..1 can produce.
ArccosTable ==
    (<<200, 203>> :> 13964995) @@ (<<289, 294>> :> 14986586) @@ (<<484, 493>> :> 15530332) @@
    (<<256, 261>> :> 15911600) @@ (<<50, 51>> :> 16098934) @@ (<<75, 77>> :> 18549000) @@
    (<<169, 174>> :> 19519345) @@ (<<32, 33>> :> 20049976) @@ (<<27, 28>> :> 21786789) @@
    (<<49, 51>> :> 22843507) @@ (<<121, 126>> :> 22980920) @@ (<<20, 21>> :> 25208765) @@
    (<<16, 17>> :> 28072487) @@ (<<27, 29>> :> 30450314) @@ (<<25, 27>> :> 31586338) @@
    (<<32, 35>> :> 34047732) @@ (<<49, 54>> :> 35430945) @@ (<<169, 187>> :> 36148910) @@
    (<<9, 10>> :> 36869898) @@ (<<169, 189>> :> 37967506) @@ (<<25, 28>> :> 38213211) @@
    (<<49, 55>> :> 38572651) @@ (<<361, 406>> :> 38892520) @@ (<<8, 9>> :> 38942441) @@
    (<<529, 609>> :> 42500264) @@ (<<169, 196>> :> 43573579) @@ (<<25, 29>> :> 43602819) @@
    (<<6, 7>> :> 44415309) @@ (<<49, 58>> :> 46397181) @@ (<<121, 145>> :> 48012727) @@
    (<<5, 6>> :> 48189685) @@ (<<361, 441>> :> 50417531) @@ (<<9, 11>> :> 50478804) @@
    (<<4, 5>> :> 53130102) @@ (<<484, 609>> :> 53879106) @@ (<<121, 153>> :> 54429845) @@
    (<<27, 35>> :> 57121650) @@ (<<16, 21>> :> 58411864) @@ (<<25, 33>> :> 58992417) @@
    (<<3, 4>> :> 60000000) @@ (<<625, 841>> :> 60900628) @@ (<<25, 34>> :> 61927513) @@
    (<<8, 11>> :> 62964308) @@ (<<20, 29>> :> 67709030) @@ (<<2, 3>> :> 70528779) @@
    (<<50, 77>> :> 72620383) @@ (<<9, 14>> :> 73398450) @@ (<<16, 25>> :> 73739795) @@
    (<<128, 203>> :> 74865623) @@ (<<121, 196>> :> 76426421) @@ (<<49, 81>> :> 77884883) @@
    (<<3, 5>> :> 78463041) @@ (<<49, 85>> :> 81202589) @@ (<<169, 294>> :> 81392784) @@
    (<<4, 7>> :> 81786789) @@ (<<5, 9>> :> 83620630) @@ (<<169, 319>> :> 86585378) @@
    (<<9, 17>> :> 86627713) @@ (<<25, 49>> :> 88830617) @@ (<<1, 2>> :> 90000000) @@
    (<<49, 99>> :> 90578755) @@ (<<24, 49>> :> 91169383) @@ (<<400, 841>> :> 92794362) @@
    (<<289, 609>> :> 92917795) @@ (<<8, 17>> :> 93372287) @@ (<<4, 9>> :> 96379370) @@
    (<<64, 145>> :> 96732921) @@ (<<3, 7>> :> 98213211) @@ (<<49, 121>> :> 100957607) @@
    (<<2, 5>> :> 101536959) @@ (<<75, 203>> :> 105134377) @@ (<<9, 25>> :> 106260205) @@
    (<<5, 14>> :> 106601550) @@ (<<27, 77>> :> 107379617) @@ (<<169, 493>> :> 108324694) @@
    (<<64, 189>> :> 108829395) @@ (<<49, 145>> :> 108913355) @@ (<<1, 3>> :> 109471221) @@
    (<<9, 29>> :> 112290970) @@ (<<49, 174>> :> 115898715) @@ (<<121, 441>> :> 116823729) @@
    (<<3, 11>> :> 117035692) @@ (<<1, 4>> :> 120000000) @@ (<<8, 33>> :> 121007583) @@
    (<<5, 21>> :> 121588136) @@ (<<8, 35>> :> 122878350) @@ (<<64, 289>> :> 123855026) @@
    (<<25, 121>> :> 125928616) @@ (<<1, 5>> :> 126869898) @@ (<<2, 11>> :> 129521196) @@
    (<<1, 6>> :> 131810315) @@ (<<25, 153>> :> 132314728) @@ (<<1, 7>> :> 135584691) @@
    (<<4, 29>> :> 136397181) @@ (<<1, 9>> :> 141057559) @@ (<<3, 28>> :> 141786789) @@
    (<<1, 10>> :> 143130102) @@ (<<3, 35>> :> 145952268) @@ (<<4, 49>> :> 146796901) @@
    (<<25, 319>> :> 147486006) @@ (<<2, 27>> :> 148413662) @@ (<<2, 29>> :> 149549686) @@
    (<<16, 261>> :> 151329659) @@ (<<1, 17>> :> 151927513) @@ (<<1, 21>> :> 154791235) @@
    (<<4, 85>> :> 154942385) @@ (<<1, 25>> :> 156926082) @@ (<<1, 28>> :> 158213211) @@
    (<<1, 33>> :> 159950024) @@ (<<2, 77>> :> 161451000) @@ (<<1, 49>> :> 163573579) @@
    (<<1, 51>> :> 163901066) @@ (<<1, 55>> :> 164501267) @@ (<<3, 203>> :> 166035005) @@
    (<<1, 81>> :> 167241260) @@ (<<1, 99>> :> 168463638) @@ (<<1, 126>> :> 169777821) @@
    (<<1, 145>> :> 170472717)

\* The pairs (a, b) of squared lengths of parallel normals on that grid for
\* which the float product sqrt(a) * sqrt(b) of line 29 exceeds sqrt(a * b):
\* the quotient is then 1 - 2^-52 in place of 1, and np.clip leaves it.
SqrtProductExceeds ==
    {<<2, 2>>, <<2, 8>>, <<2, 32>>, <<8, 2>>, <<8, 8>>, <<8, 32>>, <<32, 2>>,
     <<32, 8>>, <<32, 32>>, <<5, 5>>, <<5, 20>>, <<20, 5>>, <<20, 20>>}

\* np.degrees(np.arccos(1 - 2^-52)) = 1.2074e-6 degree, in units of 5e-7.
ArccosBelowOne == 2

\* Mutant of ArccosDeg: the sign of the cosine is lost.
ArccosDegNoSign(d, a, b) ==
    IF d = 0 THEN 90 * DEG
    ELSE IF d * d >= a * b THEN 0
    ELSE ArccosTable[<<(d * d) \div GCD(d * d, a * b), (a * b) \div GCD(d * d, a * b)>>]

\* np.degrees(np.arccos(np.clip(d / (sqrt(a) * sqrt(b)), -1.0, 1.0))), lines
\* 26-32, for the dot product d of two normals of squared lengths a, b > 0.
ArccosDeg(d, a, b) ==
    IF d = 0 THEN 90 * DEG
    ELSE IF d * d >= a * b
    THEN LET t == IF <<a, b>> \in SqrtProductExceeds THEN ArccosBelowOne ELSE 0
         IN  IF d > 0 THEN t ELSE 180 * DEG - t
    ELSE LET g == GCD(d * d, a * b)
             t == ArccosTable[<<(d * d) \div g, (a * b) \div g>>]
         IN  IF d > 0 THEN t ELSE 180 * DEG - t

\* step[k] with Python's negative indices (lines 14-17).
AtomAt(step, k) == IF k < 0 THEN step[Len(step) + k + 1] ELSE step[k + 1]

\* Mutant of Offset: a full turn is added.
OffsetFullTurn == 360 * DEG

\* The constant added on line 33.
Offset == 180 * DEG

\* One pass of the loop body, lines 14-33: the value appended for one frame.
\* A zero normal makes line 29 compute 0/0 = nan, which np.clip, np.arccos
\* and the addition all propagate.
DihedralOfStep(step, ai, aj, ak, al) ==
    LET A == AtomAt(step, ai)
        B == AtomAt(step, aj)
        C == AtomAt(step, ak)
        D == AtomAt(step, al)
        v1 == VSub(B, A)
        v2 == VSub(C, B)
        v3 == VSub(D, C)
        n1 == Cross(v1, v2)
        n2 == Cross(v2, v3)
        a  == Dot(n1, n1)
        b  == Dot(n2, n2)
    IN  IF a * b = 0 THEN NaN ELSE ArccosDeg(Dot(n1, n2), a, b) + Offset

\* calculate_dihedral(trajectory, i, j, k, l): one value per frame.
calculate_dihedral(trajectory, ai, aj, ak, al) ==
    [s \in 1..Len(trajectory) |-> DihedralOfStep(trajectory[s], ai, aj, ak, al)]

\* step[i] raises IndexError outside -natoms..natoms-1.
IndexOk(n, idx) == -n <= idx /\ idx < n

(***************************************************************************)
(* Text: a token and a line are sequences of one-character strings; a file *)
(* is a sequence of lines.                                                 *)
(***************************************************************************)
DigitChars == <<"0", "1", "2", "3", "4", "5", "6", "7", "8", "9">>

IsDigit(c) == \E k \in 1..10 : DigitChars[k] = c

DigitVal(c) == (CHOOSE k \in 1..10 : DigitChars[k] = c) - 1

\* str(n) for an integer n >= 0
RECURSIVE Digits(_)
Digits(n) ==
    IF n < 10 THEN <<DigitChars[n + 1]>>
    ELSE Append(Digits(n \div 10), DigitChars[(n % 10) + 1])

\* int(s) for a sequence of digits
RECURSIVE NatOf(_)
NatOf(s) ==
    IF s = <<>> THEN 0
    ELSE NatOf(SubSeq(s, 1, Len(s) - 1)) * 10 + DigitVal(s[Len(s)])

\* '%d' % x for the frame index x (a float holding a whole number >= 0), line 139
FormatD(x) == Digits(x)

\* 2^s mod 625
RECURSIVE Pow2Mod625(_)
Pow2Mod625(s) == IF s = 0 THEN 1 ELSE (2 * Pow2Mod625(s - 1)) % 625

\* The exponent e of the float nearest to k / 20000 (k >= 1): 2^e <= k / 20000
\* < 2^(e+1).  Up for k >= 20000, Down for smaller k.
RECURSIVE BinaryExponentUp(_, _, _)
BinaryExponentUp(k, e, p) == IF 2 * p <= k THEN BinaryExponentUp(k, e + 1, 2 * p) ELSE e

RECURSIVE BinaryExponentDown(_, _, _)
BinaryExponentDown(k, j, p) == IF p >= 20000 THEN -j ELSE BinaryExponentDown(k, j + 1, 2 * p)

BinaryExponent(k) ==
    IF k >= 20000 THEN BinaryExponentUp(k, 0, 20000) ELSE BinaryExponentDown(k, 0, k)

\* Whether the float nearest to the decimal k / 20000 (k odd, not a multiple
\* of 625: a number that ends in 5 at the fifth decimal and is no binary
\* fraction) lies above it.  The float is m * 2^(e - 52) with m the integer
\* nearest to k * 2^(47 - e) / 625; it lies above when the remainder of that
\* division exceeds half of 625.
FloatIsAbove(k) ==
    2 * (((k % 625) * Pow2Mod625(47 - BinaryExponent(k))) % 625) > 625

\* The number of units (5e-7 degree) in 1e-4 degree.
UnitsPer4 == DEG \div 10000

\* A finite value rounded to 4 decimals as '%.4f' rounds the float, in units
\* of 1e-4 degree.  A value half-way between two 4-decimal numbers is the
\* float nearest to that decimal: it goes where the float lies, and to the
\* even neighbour when the float is the decimal exactly.
Round4(v) ==
    LET a == Abs(v)
        q == a \div UnitsPer4
        r == a % UnitsPer4
        k == 2 * q + 1
        up == \/ 2 * r > UnitsPer4
              \/ /\ 2 * r = UnitsPer4
                 /\ IF k % 625 = 0 THEN q % 2 = 1 ELSE FloatIsAbove(k)
    IN  (IF v < 0 THEN -1 ELSE 1) * (IF up THEN q + 1 ELSE q)

\* '%.4f' % v, line 139
FormatF4(v) ==
    IF v = NaN THEN <<"n", "a", "n">>
    ELSE IF v = Inf THEN <<"i", "n", "f">>
    ELSE IF v = -Inf THEN <<"-", "i", "n", "f">>
    ELSE LET r == Round4(v)
             a == Abs(r)
             f == a % 10000
         IN  (IF v < 0 THEN <<"-">> ELSE <<>>) \o Digits(a \div 10000) \o <<".">>
             \o <<DigitChars[(f \div 1000) + 1], DigitChars[((f \div 100) % 10) + 1],
                  DigitChars[((f \div 10) % 10) + 1], DigitChars[(f % 10) + 1]>>

\* delimiter.join(tokens) with the delimiter ' ' of np.savetxt, line 141
RECURSIVE Join(_)
Join(tokens) ==
    IF tokens = <<>> THEN <<>>
    ELSE IF Len(tokens) = 1 THEN tokens[1]
    ELSE tokens[1] \o <<" ">> \o Join(Tail(tokens))

\* str.isspace() on one character.  The text of the model is made of the
\* characters below 256, and these are the whitespace among them: blank, tab,
\* newline, carriage return, form feed, then (written as the characters
\* themselves) vertical tab 0x0b, the separators 0x1c, 0x1d, 0x1e, 0x1f, next
\* line 0x85 and no-break space 0xa0.
IsSpace(c) ==
    c \in {" ", "\t", "\n", "\r", "\f", "", "", "", "", "", "", " "}

RECURSIVE SplitAcc(_, _, _)
SplitAcc(line, cur, acc) ==
    IF line = <<>> THEN (IF cur = <<>> THEN acc ELSE Append(acc, cur))
    ELSE IF IsSpace(Head(line))
         THEN SplitAcc(Tail(line), <<>>, IF cur = <<>> THEN acc ELSE Append(acc, cur))
         ELSE SplitAcc(Tail(line), Append(cur, Head(line)), acc)

\* line.split(), line 148: the runs of characters between whitespace
Split(line) == SplitAcc(line, <<>>, <<>>)

\* The whitespace that int() and float() skip around a number: that of
\* str.isspace() except the four separators 0x1c, 0x1d, 0x1e, 0x1f, which
\* the conversions reject.
IsNumberSpace(c) == IsSpace(c) /\ c \notin {"", "", "", ""}

RECURSIVE TrimLeft(_)
TrimLeft(s) == IF s # <<>> /\ IsNumberSpace(Head(s)) THEN TrimLeft(Tail(s)) ELSE s

RECURSIVE TrimRight(_)
TrimRight(s) ==
    IF s # <<>> /\ IsNumberSpace(s[Len(s)]) THEN TrimRight(SubSeq(s, 1, Len(s) - 1))
    ELSE s

\* The text of a number without the whitespace around it.
Trim(s) == TrimRight(TrimLeft(s))

\* c.lower() on the letters of 'inf', 'infinity', 'nan' and the exponent mark
Lower(c) ==
    CASE c = "A" -> "a" [] c = "E" -> "e" [] c = "F" -> "f" [] c = "I" -> "i"
      [] c = "N" -> "n" [] c = "T" -> "t" [] c = "Y" -> "y" [] OTHER -> c

LowerAll(s) == [k \in 1..Len(s) |-> Lower(s[k])]

HasSign(s) == s # <<>> /\ s[1] \in {"+", "-"}

\* The text after an optional sign.
Unsigned(s) == IF HasSign(s) THEN Tail(s) ELSE s

IsNegative(s) == s # <<>> /\ s[1] = "-"

\* A digit part of a Python numeric literal: digits, with single underscores
\* allowed between two digits.
IsDigitPart(s) ==
    /\ s # <<>>
    /\ IsDigit(s[1])
    /\ IsDigit(s[Len(s)])
    /\ \A k \in 1..Len(s) : IsDigit(s[k]) \/ s[k] = "_"
    /\ \A k \in 1..(Len(s) - 1) : ~(s[k] = "_" /\ s[k + 1] = "_")

\* The digits of a digit part.
DigitsOf(s) == SelectSeq(s, IsDigit)

RECURSIVE StripZeros(_)
StripZeros(s) == IF s # <<>> /\ Head(s) = "0" THEN StripZeros(Tail(s)) ELSE s

\* The index of the first c in s, or Len(s) + 1.
FirstAt(s, c) ==
    IF \E k \in 1..Len(s) : s[k] = c
    THEN CHOOSE k \in 1..Len(s) : s[k] = c /\ \A j \in 1..(k - 1) : s[j] # c
    ELSE Len(s) + 1

\* The parts of the text of a float: lower-cased and trimmed, without its
\* sign; mantissa and exponent around the first 'e'; whole and fraction
\* around the first '.'.
FloatBody(tok) == Unsigned(LowerAll(Trim(tok)))

Mantissa(u) == SubSeq(u, 1, FirstAt(u, "e") - 1)

HasExponent(u) == FirstAt(u, "e") <= Len(u)

Exponent(u) == SubSeq(u, FirstAt(u, "e") + 1, Len(u))

Whole(m) == SubSeq(m, 1, FirstAt(m, ".") - 1)

Fraction(m) == SubSeq(m, FirstAt(m, ".") + 1, Len(m))

IsInfText(u) == u = <<"i", "n", "f">> \/ u = <<"i", "n", "f", "i", "n", "i", "t", "y">>

IsNanText(u) == u = <<"n", "a", "n">>

\* Whether float(tok) succeeds (np.loadtxt, line 150; float(z_value), line
\* 224): [sign] (digits [. digits] | . digits) [e [sign] digits], or inf,
\* infinity or nan in any case, with whitespace around.
IsFloatToken(tok) ==
    LET u == FloatBody(tok)
        m == Mantissa(u)
        w == Whole(m)
        f == Fraction(m)
    IN  \/ IsInfText(u)
        \/ IsNanText(u)
        \/ /\ w = <<>> \/ IsDigitPart(w)
           /\ f = <<>> \/ IsDigitPart(f)
           /\ Len(w) + Len(f) > 0
           /\ HasExponent(u) => IsDigitPart(Unsigned(Exponent(u)))

\* The value of a decimal exponent, kept within -9999..9999.
ExponentValue(x) ==
    LET d == StripZeros(DigitsOf(Unsigned(x)))
        n == IF Len(d) > 4 THEN 9999 ELSE NatOf(d)
    IN  IF IsNegative(x) THEN -n ELSE n

\* digits * 10^(s - 6) in units of 5e-7 degree, to the nearest unit, for a
\* digit string without leading zeros: the digits before the cut twice, plus
\* twice the fraction 0.gh that follows the cut (a text exactly half-way
\* between two units goes up).
Scaled(d, s) ==
    IF d = <<>> THEN 0
    ELSE IF Len(d) + s > 9 THEN Inf
    ELSE IF s >= 0 THEN 2 * NatOf(d \o [k \in 1..s |-> "0"])
    ELSE IF Len(d) + s < 0 THEN 0
    ELSE LET keep == Len(d) + s
             g == NatOf(SubSeq(d \o <<"0", "0">>, keep + 1, keep + 2))
         IN  2 * NatOf(SubSeq(d, 1, keep))
             + (IF g >= 75 THEN 2 ELSE IF g >= 25 THEN 1 ELSE 0)

\* float(tok), in units of 5e-7 degree
ParseFloat(tok) ==
    LET u == FloatBody(tok)
        m == Mantissa(u)
        w == DigitsOf(Whole(m))
        f == DigitsOf(Fraction(m))
        e == IF HasExponent(u) THEN ExponentValue(Exponent(u)) ELSE 0
        a == IF IsInfText(u) THEN Inf ELSE Scaled(StripZeros(w \o f), e - Len(f) + 6)
    IN  IF IsNanText(u) THEN NaN
        ELSE IF IsNegative(LowerAll(Trim(tok))) THEN -a ELSE a

\* Whether int(tok) succeeds (line 215): [sign] digits, with whitespace
\* around.
IsIntToken(tok) == IsDigitPart(Unsigned(Trim(tok)))

\* int(tok), line 215
ParseInt(tok) ==
    LET n == NatOf(DigitsOf(Unsigned(Trim(tok))))
    IN  IF IsNegative(Trim(tok)) THEN -n ELSE n

(***************************************************************************)
(* np.savetxt / np.loadtxt of the dihedral table                           *)
(***************************************************************************)
\* np.column_stack((indexes, dihetraj)), line 141: row r is the index r
\* followed by row r of the matrix.
ColumnStack(rows) == [r \in 1..Len(rows) |-> <<r - 1>> \o rows[r]]

\* One line of np.savetxt with fmt = ['%d'] + ['%.4f'] * ndihe, lines 139-141.
FormatRow(row) ==
    Join(<<FormatD(row[1])>> \o [c \in 1..(Len(row) - 1) |-> FormatF4(row[c + 1])])

\* np.savetxt('dihetraj.dat', np.column_stack((indexes, dihetraj)), fmt=fmt)
SaveTxt(rows) == LET st == ColumnStack(rows) IN [r \in 1..Len(st) |-> FormatRow(st[r])]

\* What np.loadtxt returns for R rows of K columns: axes of length one are
\* dropped (ndmin = 0).
Squeeze(rows) ==
    IF Len(rows) = 1 /\ Len(rows[1]) = 1 THEN Array0(rows[1][1])
    ELSE IF Len(rows) = 1 THEN Array1(rows[1])
    ELSE IF \A r \in 1..Len(rows) : Len(rows[r]) = 1
         THEN Array1([r \in 1..Len(rows) |-> rows[r][1]])
    ELSE Array2(rows)

\* len(first_line.split()) - 1, lines 146-148
FirstLineNdihe(lines) == (IF lines = <<>> THEN 0 ELSE Len(Split(lines[1]))) - 1

\* A line as np.loadtxt reads it: the text before the first '#'.
Uncomment(line) == SubSeq(line, 1, FirstAt(line, "#") - 1)

NonEmpty(s) == s # <<>>

\* The rows np.loadtxt reads, as tokens: lines that are blank once the
\* comment is removed are skipped.
DataRows(lines) ==
    SelectSeq([r \in 1..Len(lines) |-> Split(Uncomment(lines[r]))], NonEmpty)

\* Whether np.loadtxt(input_name, usecols=range(1, nd+1)) succeeds: every
\* row has the columns and every selected token is a number.
LoadTableOk(lines, nd) ==
    /\ nd >= 1
    /\ \A r \in 1..Len(DataRows(lines)) :
          LET t == DataRows(lines)[r]
          IN  Len(t) >= nd + 1 /\ \A c \in 2..(nd + 1) : IsFloatToken(t[c])

\* np.loadtxt(input_name, usecols=range(1, nd+1)), line 150; without rows
\* the result has shape (0, nd), and its axis of length one is dropped.
LoadTable(lines, nd) ==
    LET rows == DataRows(lines)
    IN  IF rows = <<>> THEN (IF nd = 1 THEN Array1(<<>>) ELSE Array2(<<>>))
        ELSE Squeeze([r \in 1..Len(rows) |-> [c \in 1..nd |-> ParseFloat(rows[r][c + 1])]])

\* Whether np.loadtxt(input_name) with no column selection succeeds: the
\* rows have the same number of columns and every token is a number.
LoadAllOk(lines) ==
    \A r \in 1..Len(DataRows(lines)) :
        LET t == DataRows(lines)[r]
        IN  Len(t) = Len(DataRows(lines)[1]) /\ \A c \in 1..Len(t) : IsFloatToken(t[c])

\* np.loadtxt(input_name) with no column selection; without rows the result
\* is an empty 1-D array.
LoadAll(lines) ==
    LET rows == DataRows(lines)
    IN  IF rows = <<>> THEN Array1(<<>>)
        ELSE Squeeze([r \in 1..Len(rows) |->
                        [c \in 1..Len(rows[r]) |-> ParseFloat(rows[r][c])]])

\* np.loadtxt with an empty column selection and R rows: rows without
\* columns, shape (R, 0), with its axis of length one dropped.
LoadNoColumns(lines) ==
    IF DataRows(lines) = <<>> THEN Array2(<<>>)
    ELSE Squeeze([r \in 1..Len(DataRows(lines)) |-> <<>>])

LoadFailed == [ok |-> FALSE, value |-> Unbound]

Loaded(a) == [ok |-> TRUE, value |-> a]

\* What line 150 can do for the ndihe = nd of line 148.  With nd >= 1 the
\* selection is the columns 1..nd and the outcome is one.  With nd <= 0 the
\* selection range(1, nd+1) is empty, and what np.loadtxt does with an empty
\* selection depends on the numpy installed: it raises, or it returns the
\* rows without columns, or (older releases, which take an empty selection
\* as none) it reads every column.  Each of these is an outcome.
LoadOutcomes(lines, nd) ==
    IF nd >= 1
    THEN {IF LoadTableOk(lines, nd) THEN Loaded(LoadTable(lines, nd)) ELSE LoadFailed}
    ELSE {LoadFailed, Loaded(LoadNoColumns(lines))}
         \cup (IF LoadAllOk(lines) THEN {Loaded(LoadAll(lines))} ELSE {})

(***************************************************************************)
(* The dihedral-definition file, lines 125-132                             *)
(***************************************************************************)
\* Whether np.loadtxt(dihelist_name, dtype='int') succeeds on rows of
\* integers: all rows have the same number of columns.
LoadIntsOk(rows) == \A r \in 1..Len(rows) : Len(rows[r]) = Len(rows[1])

\* np.loadtxt(dihelist_name, dtype='int'), line 125; an empty file gives an
\* empty 1-D array.
LoadInts(rows) == IF rows = <<>> THEN Array1(<<>>) ELSE Squeeze(rows)

\* Mutant of ExpandChain: the loop stops one quadruple early.
ExpandChainShort(old_dihelist) ==
    [k \in 1..(Len(old_dihelist) - 4) |->
        <<old_dihelist[k], old_dihelist[k + 1], old_dihelist[k + 2], old_dihelist[k + 3]>>]

\* Lines 127-131: the chain old_dihelist expanded to len - 3 quadruples.
ExpandChain(old_dihelist) ==
    [k \in 1..(Len(old_dihelist) - 3) |->
        <<old_dihelist[k], old_dihelist[k + 1], old_dihelist[k + 2], old_dihelist[k + 3]>>]

\* np.empty((n, 4)) raises ValueError for n < 0 (line 128).
ExpandOk(old_dihelist) == Len(old_dihelist) - 3 >= 0

(***************************************************************************)
(* Preprocessing, lines 158-159                                            *)
(***************************************************************************)
\* The bounds 0.001 and 359.999 of line 158, in units of 5e-7 degree.
ClipLo == 2000

ClipHi == 719998000

\* Mutant of Clip: only the upper bound is applied.
ClipUpperOnly(x) == IF x = NaN THEN NaN ELSE Min2(x, ClipHi)

\* np.clip(x, 0.001, 359.999) on one element; nan stays nan, inf and -inf
\* become the bounds.
Clip(x) == IF x = NaN THEN NaN ELSE Min2(Max2(x, ClipLo), ClipHi)

\* pi / 360 = 0.008 726 646 259 971 647 ..., three decimals to a limb: the
\* radians, in 1e-6 radian, of one unit of 5e-7 degree.
PiLimbs == <<8, 726, 646, 259, 971, 647>>

PiLimb(j) == IF j \in 1..Len(PiLimbs) THEN PiLimbs[j] ELSE 0

\* The limbs of x < 2^31, base 1000: x = L2 * 10^6 + L1 * 10^3 + L0.
Limb(x, n) ==
    IF n = 0 THEN x % 1000 ELSE IF n = 1 THEN (x \div 1000) % 1000 ELSE x \div 1000000

\* The products of the long multiplication x * (pi / 360) that weigh
\* 1000^p, and their sum with the carry from the lighter columns.
Column(x, p) ==
    Limb(x, 0) * PiLimb(-p) + Limb(x, 1) * PiLimb(1 - p) + Limb(x, 2) * PiLimb(2 - p)

RECURSIVE Carried(_, _)
Carried(x, p) ==
    Column(x, p) + (IF p <= -Len(PiLimbs) THEN 0 ELSE Carried(x, p - 1) \div 1000)

\* x * np.pi / 180.0 on one element, line 159, in 1e-6 radian, to the
\* nearest: the exact product by long multiplication, so that the 32-bit
\* arithmetic is never exceeded.
ToRadians(x) ==
    IF x = NaN \/ x = Inf \/ x = -Inf THEN x
    ELSE LET a == Abs(x)
             r == 1000 * Column(a, 1) + Carried(a, 0)
                  + (IF Carried(a, -1) % 1000 >= 500 THEN 1 ELSE 0)
         IN  IF x < 0 THEN -r ELSE r

\* np.clip on an array of any dimension, line 158
ClipArray(a) ==
    IF a.ndim = 2
    THEN Array2([r \in 1..Len(a.data) |-> [c \in 1..Len(a.data[r]) |-> Clip(a.data[r][c])]])
    ELSE [ndim |-> a.ndim, data |-> [k \in 1..Len(a.data) |-> Clip(a.data[k])]]

\* dihetraj*np.pi/180.0 on an array of any dimension, line 159
RadiansArray(a) ==
    IF a.ndim = 2
    THEN Array2([r \in 1..Len(a.data) |->
                   [c \in 1..Len(a.data[r]) |-> ToRadians(a.data[r][c])]])
    ELSE [ndim |-> a.ndim, data |-> [k \in 1..Len(a.data) |-> ToRadians(a.data[k])]]

\* Whether the array handed to Data (line 162) holds no number at all.
NoEntries(a) ==
    \/ a.data = <<>>
    \/ a.ndim = 2 /\ \A r \in 1..Len(a.data) : a.data[r] = <<>>

(***************************************************************************)
(* Intrinsic dimension, lines 170-217                                      *)
(***************************************************************************)
\* np.min over a non-empty curve
RECURSIVE SeqMin(_)
SeqMin(s) == IF Len(s) = 1 THEN s[1] ELSE Min2(s[1], SeqMin(Tail(s)))

\* int(x) for a float x given in tenths: truncation toward zero.
IntOfTenths(x) == IF x >= 0 THEN x \div 10 ELSE -((-x) \div 10)

\* Mutant of EstimateID: the smaller of the two minima.
EstimateIDSmaller(c2nn, cgride) == IntOfTenths(Min2(SeqMin(c2nn), SeqMin(cgride)))

\* int(max(np.min(ids_2nn), np.min(ids_gride))), line 211
EstimateID(c2nn, cgride) == IntOfTenths(Max2(SeqMin(c2nn), SeqMin(cgride)))

(***************************************************************************)
(* The script's state                                                      *)
(***************************************************************************)
\* A Python value that is the int n (argparse default) or the string tok.
PyInt(n) == [kind |-> "int", int |-> n, str |-> <<>>]

PyStr(tok) == [kind |-> "str", int |-> 0, str |-> tok]

\* ID == 0 in Python: a str never equals an int (line 170).
PyEqZero(x) == x.kind = "int" /\ x.int = 0

\* Mutant of check_bool: other spellings are let through.
check_bool_lenient(inputvariable) == inputvariable \in {"", "None"}

\* The membership test of check_bool, line 58: TRUE when the script exits.
check_bool(inputvariable) == inputvariable \notin {"True", "False"}

\* The conversion of lines 90 and 93.
ToBool(s) == s = "True"

\* The test of line 124 (and of lines 107, 116): formats whose input is a
\* coordinate trajectory.
IsCoordinateFormat(fmt) == fmt = "xyz" \/ fmt = "netcdf"

NoData == [state |-> "none", maxk |-> 0, id |-> 0, Z |-> 0, halo |-> FALSE]

NoLog ==
    [runs |-> 1, opened |-> {}, wrote |-> FALSE, calc_calls |-> 0, estimators |-> {},
     plotted |-> FALSE, saved |-> <<>>, preclip |-> Unbound, reached |-> {}]

\* np.empty((n, k)), line 133: every element is overwritten by the loop of
\* lines 135-137 before anything reads it.
EmptyMatrix(n, k) == Array2([r \in 1..n |-> [c \in 1..k |-> 0]])

\* dihetraj[:, col] = values, line 137 (col is 0-based)
SetColumn(a, col, values) ==
    Array2([r \in 1..Len(a.data) |->
              [c \in 1..Len(a.data[r]) |-> IF c = col + 1 THEN values[r] ELSE a.data[r][c]]])

\* An uncaught exception, or sys.exit(message): the run ends with status 1.
Fail(kind) ==
    /\ pc' = "exit"
    /\ exit_code' = 1
    /\ error' = kind

Goto(next) ==
    /\ pc' = next
    /\ UNCHANGED <<exit_code, error>>

Reached(stage) == [log EXCEPT !.reached = @ \cup {stage}]

(***************************************************************************)
(* Inputs                                                                  *)
(***************************************************************************)
MaxCurveLen == 2

MaxClusters == 2

MaxExtraFrames == 1

MaxChain == 5

MaxRows == 2

MaxCols == 2

MaxClipFrames == 2

Coords == {-1, 0, 1}

Grid == {<<x, y, z>> : x \in Coords, y \in Coords, z \in Coords}

\* Planar trans, planar cis, perpendicular and collinear arrangements of the
\* atoms 0..3.
FrameTrans == <<<<0, 1, 0>>, <<0, 0, 0>>, <<1, 0, 0>>, <<1, -1, 0>>>>

FrameCis == <<<<0, 1, 0>>, <<0, 0, 0>>, <<1, 0, 0>>, <<1, 1, 0>>>>

FramePerp == <<<<0, 1, 0>>, <<0, 0, 0>>, <<1, 0, 0>>, <<1, 0, 1>>>>

FrameLine == <<<<-1, 0, 0>>, <<0, 0, 0>>, <<1, 0, 0>>, <<1, 1, 0>>>>

SeqsUpTo(S, n) == UNION {[1..k -> S] : k \in 0..n}

NonEmptySeqsUpTo(S, n) == UNION {[1..k -> S] : k \in 1..n}

Missing == [kind |-> "missing", frames |-> <<>>, lines |-> <<>>, rows |-> <<>>]

\* str(n) for an integer coordinate
IntText(n) == IF n < 0 THEN <<"-">> \o Digits(-n) ELSE Digits(n)

\* One atom line of an xyz file: the element and the three coordinates.
XyzAtomLine(p) == Join(<<<<"C">>, IntText(p[1]), IntText(p[2]), IntText(p[3])>>)

\* One frame of an xyz file: the number of atoms, a comment line (left
\* empty), one line per atom.
XyzFrameText(f) == <<Digits(Len(f)), <<>>>> \o [k \in 1..Len(f) |-> XyzAtomLine(f[k])]

RECURSIVE XyzText(_)
XyzText(frames) ==
    IF frames = <<>> THEN <<>> ELSE XyzFrameText(Head(frames)) \o XyzText(Tail(frames))

\* A trajectory file: the frames its reader returns (lines 110-121), and the
\* lines of the file when it is opened as text (line 146), those of an xyz
\* file.
TrajFile(frames) ==
    [kind |-> "traj", frames |-> frames, lines |-> XyzText(frames), rows |-> <<>>]

TableFile(lines) == [kind |-> "table", frames |-> <<>>, lines |-> lines, rows |-> <<>>]

IntsFile(rows) == [kind |-> "ints", frames |-> <<>>, lines |-> <<>>, rows |-> rows]

NoFile == [exists |-> FALSE, lines |-> <<>>]

\* The two layouts of a chain in the definition file: one row, one column.
AsRow(chain) == IF chain = <<>> THEN <<>> ELSE <<chain>>

AsColumn(chain) == [k \in 1..Len(chain) |-> <<chain[k]>>]

InputFiles ==
    { Missing,
      TrajFile(<<FrameTrans, FramePerp>>),
      TrajFile(<<FrameCis, FrameLine>>),
      TableFile(SaveTxt(<<<<540000080, 360000000>>, <<719999920, NaN>>>>)),
      TableFile(SaveTxt(<<<<540000000, 360000000>>>>)) }

DihelistFiles ==
    { Missing,
      IntsFile(AsRow(<<0, 1, 2, 3>>)),
      IntsFile(AsColumn(<<0, 1, 2, 3, 0>>)),
      IntsFile(AsRow(<<0, 1>>)),
      IntsFile(<<<<0, 1, 2, 3>>, <<3, 2, 1, 0>>>>),
      IntsFile(<<<<0, 1, 2, 7>>, <<3, 2, 1, 0>>>>) }

Formats == {"xyz", "netcdf", "dihe", "pdb"}

IdArgs == {PyInt(0), PyStr(<<"0">>), PyStr(<<"+", "2">>), PyStr(<<"x">>)}

BoolArgs == {"True", "False", "yes"}

ZArgs == {<<"3", ".", "5">>, <<"1", "e", "1">>}

\* Intrinsic-dimension estimates of the external estimator, in tenths.
IdEstimates == {7, 30, 42}

Curves == NonEmptySeqsUpTo(IdEstimates, MaxCurveLen)

\* The state before line 82.  A module-level name that no statement has bound
\* yet holds a placeholder ("", 0, FALSE, <<>>, Unbound); a run that exits at
\* line 76 leaves them all unbound.
Blank(a, fi, fd, p) ==
    /\ pc = p
    /\ exit_code = -1
    /\ error = ""
    /\ args = a
    /\ fs_input = fi
    /\ fs_dihelist = fd
    /\ fs_out = NoFile
    /\ file_format = ""
    /\ ID = PyInt(0)
    /\ visualize = FALSE
    /\ halo = FALSE
    /\ z_value = <<>>
    /\ coordinates = <<>>
    /\ nsteps = 0
    /\ natoms = 0
    /\ dihelist = Unbound
    /\ ndihe = 0
    /\ dihetraj = Unbound
    /\ i = 0
    /\ ids_2nn = <<>>
    /\ ids_gride = <<>>
    /\ d_dihedrals = NoData
    /\ n_clusters = 0
    /\ log = NoLog

NoArgs ==
    [noargs |-> TRUE, format |-> "", id |-> PyInt(0), visualize |-> "False",
     halo |-> "False", zvalue |-> <<"3", ".", "5">>]

ArgSets ==
    {NoArgs} \cup
    [noargs : {FALSE}, format : Formats, id : IdArgs, visualize : BoolArgs,
     halo : BoolArgs, zvalue : ZArgs]

\* A process started on a command line and the two files it names.
Init ==
    \E a \in ArgSets, fi \in InputFiles, fd \in DihelistFiles :
        /\ a.noargs => (fi = Missing /\ fd = Missing)
        /\ Blank(a, fi, fd, "start")

(***************************************************************************)
(* The script, top to bottom                                               *)
(***************************************************************************)
data_vars == <<coordinates, nsteps, natoms, dihelist, ndihe, dihetraj, i>>

est_vars == <<ids_2nn, ids_gride, d_dihedrals, n_clusters>>

in_vars == <<args, fs_input, fs_dihelist>>

flag_vars == <<file_format, ID, visualize, halo, z_value>>

\* Lines 74-86: no argument prints the help and exits with status 0;
\* otherwise the arguments are parsed and assigned.  (A command line that
\* argparse itself rejects, lacking -i or -f, is not among the inputs.)
ParseArgs ==
    /\ pc = "start"
    /\ IF args.noargs
       THEN /\ pc' = "exit"
            /\ exit_code' = 0
            /\ UNCHANGED <<error, flag_vars>>
       ELSE /\ Goto("check_visualize")
            /\ file_format' = args.format
            /\ z_value' = args.zvalue
            /\ ID' = args.id
            /\ UNCHANGED <<visualize, halo>>
    /\ UNCHANGED <<in_vars, fs_out, data_vars, est_vars, log>>

\* Lines 89-90
CheckVisualize ==
    /\ pc = "check_visualize"
    /\ IF check_bool(args.visualize)
       THEN Fail("SystemExit: --visualize ( -v) must be 'True' or 'False'")
            /\ UNCHANGED visualize
       ELSE Goto("check_halo") /\ visualize' = ToBool(args.visualize)
    /\ UNCHANGED <<in_vars, fs_out, file_format, ID, halo, z_value, data_vars, est_vars, log>>

\* Lines 92-93
CheckHalo ==
    /\ pc = "check_halo"
    /\ IF check_bool(args.halo)
       THEN Fail("SystemExit: --halo ( -ha) must be 'True' or 'False'")
            /\ UNCHANGED halo
       ELSE Goto("read") /\ halo' = ToBool(args.halo)
    /\ UNCHANGED <<in_vars, fs_out, file_format, ID, visualize, z_value, data_vars, est_vars, log>>

\* Lines 96-122: the reader is imported and the coordinates are read from
\* the input file.
ReadCoordinates ==
    /\ pc = "read"
    /\ IsCoordinateFormat(file_format)
    /\ log' = [Reached("read") EXCEPT !.opened = @ \cup {"input"}]
    /\ IF fs_input.kind = "missing"
       THEN Fail("FileNotFoundError: input") /\ UNCHANGED <<coordinates, nsteps, natoms>>
       ELSE IF fs_input.kind # "traj"
       THEN Fail("ValueError: input is not a trajectory")
            /\ UNCHANGED <<coordinates, nsteps, natoms>>
       ELSE /\ Goto("dihelist")
            /\ coordinates' = fs_input.frames
            /\ nsteps' = Len(fs_input.frames)
            /\ natoms' = Len(fs_input.frames[1])
    /\ UNCHANGED <<in_vars, fs_out, flag_vars, dihelist, ndihe, dihetraj, i, est_vars>>

\* Lines 125-133: the definition file is read, a 1-D array is expanded, and
\* the time series is allocated.
LoadDihelist ==
    /\ pc = "dihelist"
    /\ log' = [Reached("dihelist") EXCEPT !.opened = @ \cup {"dihelist"}]
    /\ LET loaded == LoadInts(fs_dihelist.rows)
           expanded == IF ShapeLen(loaded) = 1 THEN Array2(ExpandChain(loaded.data))
                       ELSE loaded
       IN  IF fs_dihelist.kind = "missing"
           THEN Fail("FileNotFoundError: dihelist") /\ UNCHANGED <<dihelist, ndihe, dihetraj, i>>
           ELSE IF ~LoadIntsOk(fs_dihelist.rows)
           THEN Fail("ValueError: dihelist rows differ in length")
                /\ UNCHANGED <<dihelist, ndihe, dihetraj, i>>
           ELSE IF ShapeLen(loaded) = 1 /\ ~ExpandOk(loaded.data)
           THEN Fail("ValueError: negative dimensions are not allowed")
                /\ dihelist' = loaded
                /\ UNCHANGED <<ndihe, dihetraj, i>>
           ELSE IF ~HasLen(expanded)
           THEN Fail("TypeError: len() of unsized object")
                /\ dihelist' = expanded
                /\ UNCHANGED <<ndihe, dihetraj, i>>
           ELSE /\ Goto("calc")
                /\ dihelist' = expanded
                /\ ndihe' = PyLen(expanded)
                /\ dihetraj' = EmptyMatrix(nsteps, PyLen(expanded))
                /\ i' = 0
    /\ UNCHANGED <<in_vars, fs_out, flag_vars, coordinates, nsteps, natoms, est_vars>>

\* Lines 135-137, one pass of the loop: one call of calculate_dihedral
\* fills column i.
CalcStep ==
    /\ pc = "calc"
    /\ i < ndihe
    /\ LET q == dihelist.data[i + 1]
       IN  IF Len(q) < 4
           THEN Fail("IndexError: dihelist row") /\ UNCHANGED <<dihetraj, i, log>>
           ELSE IF \E k \in 1..4 : ~IndexOk(natoms, q[k])
           THEN /\ Fail("IndexError: atom index")
                /\ log' = [Reached("calc") EXCEPT !.calc_calls = @ + 1]
                /\ UNCHANGED <<dihetraj, i>>
           ELSE /\ Goto("calc")
                /\ dihetraj' = SetColumn(dihetraj, i,
                                   calculate_dihedral(coordinates, q[1], q[2], q[3], q[4]))
                /\ i' = i + 1
                /\ log' = [Reached("calc") EXCEPT !.calc_calls = @ + 1]
    /\ UNCHANGED <<in_vars, fs_out, flag_vars, coordinates, nsteps, natoms, dihelist,
                   ndihe, est_vars>>

\* Mutant of SaveTable: the loop is over and nothing is written.
SaveTableNoWrite ==
    /\ pc = "calc"
    /\ i = ndihe
    /\ Goto("clip")
    /\ log' = Reached("save")
    /\ UNCHANGED <<in_vars, fs_out, flag_vars, data_vars, est_vars>>

\* Lines 138-141: the loop is over and the table is written.
SaveTable ==
    /\ pc = "calc"
    /\ i = ndihe
    /\ Goto("clip")
    /\ fs_out' = [exists |-> TRUE, lines |-> SaveTxt(dihetraj.data)]
    /\ log' = [Reached("save") EXCEPT !.wrote = TRUE, !.saved = dihetraj.data]
    /\ UNCHANGED <<in_vars, flag_vars, data_vars, est_vars>>

\* Lines 142-151: any other format opens the input file as text, counts the
\* tokens of its first line and loads the columns after the first.
ReadDihe ==
    /\ pc = "read"
    /\ ~IsCoordinateFormat(file_format)
    /\ log' = [Reached("read") EXCEPT !.opened = @ \cup {"input"}]
    /\ IF fs_input.kind = "missing"
       THEN Fail("FileNotFoundError: input") /\ UNCHANGED <<ndihe, dihetraj, nsteps>>
       ELSE \E out \in LoadOutcomes(fs_input.lines, FirstLineNdihe(fs_input.lines)) :
               /\ ndihe' = FirstLineNdihe(fs_input.lines)
               /\ IF ~out.ok
                  THEN /\ Fail("ValueError: input is not a table")
                       /\ UNCHANGED <<dihetraj, nsteps>>
                  ELSE IF ~HasLen(out.value)
                  THEN /\ Fail("TypeError: len() of unsized object")
                       /\ dihetraj' = out.value
                       /\ UNCHANGED nsteps
                  ELSE /\ Goto("clip")
                       /\ dihetraj' = out.value
                       /\ nsteps' = PyLen(out.value)
    /\ UNCHANGED <<in_vars, fs_out, flag_vars, coordinates, natoms, dihelist, i, est_vars>>

\* Line 158
ClipStep ==
    /\ pc = "clip"
    /\ Goto("radians")
    /\ dihetraj' = ClipArray(dihetraj)
    /\ log' = [Reached("clip") EXCEPT !.preclip = dihetraj]
    /\ UNCHANGED <<in_vars, fs_out, flag_vars, coordinates, nsteps, natoms, dihelist,
                   ndihe, i, est_vars>>

\* Lines 159-164: radians, the Data object, the periodic distances.
\* An array without entries (no rows, or rows without columns) is not a data
\* set the distances library is known to accept: the run goes on or stops
\* there.
RadiansStep ==
    /\ pc = "radians"
    /\ dihetraj' = RadiansArray(dihetraj)
    /\ \/ /\ Goto("id")
          /\ d_dihedrals' = [NoData EXCEPT !.state = "distances",
                                           !.maxk = PyLen(dihetraj) - 1]
       \/ /\ NoEntries(dihetraj)
          /\ Fail("ValueError: data without entries")
          /\ UNCHANGED d_dihedrals
    /\ log' = Reached("radians")
    /\ UNCHANGED <<in_vars, fs_out, flag_vars, coordinates, nsteps, natoms, dihelist,
                   ndihe, i, ids_2nn, ids_gride, n_clusters>>

\* Lines 170-213: ID == 0; the estimator returns the two scaling curves.
EstimateStep ==
    /\ pc = "id"
    /\ PyEqZero(ID)
    /\ \E c2nn \in Curves, cgride \in Curves :
          /\ ids_2nn' = c2nn
          /\ ids_gride' = cgride
          /\ ID' = PyInt(EstimateID(c2nn, cgride))
    /\ Goto("cluster")
    /\ log' = [Reached("estimate") EXCEPT !.estimators = {"2NN", "GRIDE"},
                                          !.plotted = visualize]
    /\ UNCHANGED <<in_vars, fs_out, file_format, visualize, halo, z_value, data_vars,
                   d_dihedrals, n_clusters>>

\* Lines 214-217: the given value is used.
GivenIDStep ==
    /\ pc = "id"
    /\ ~PyEqZero(ID)
    /\ IF ID.kind = "str" /\ ~IsIntToken(ID.str)
       THEN Fail("ValueError: invalid literal for int()") /\ UNCHANGED ID
       ELSE /\ Goto("cluster")
            /\ ID' = IF ID.kind = "str" THEN PyInt(ParseInt(ID.str)) ELSE ID
    /\ log' = Reached("given")
    /\ UNCHANGED <<in_vars, fs_out, file_format, visualize, halo, z_value, data_vars,
                   est_vars>>

\* Lines 219-225: set_id and the clustering; the clusterer finds some
\* number of clusters.
ClusterStep ==
    /\ pc = "cluster"
    /\ log' = Reached("cluster")
    /\ IF ~IsFloatToken(z_value)
       THEN /\ Fail("ValueError: could not convert string to float")
            /\ d_dihedrals' = [d_dihedrals EXCEPT !.id = ID.int]
            /\ UNCHANGED n_clusters
       ELSE /\ Goto("report")
            /\ d_dihedrals' = [d_dihedrals EXCEPT !.state = "clustered", !.id = ID.int,
                                                  !.Z = ParseFloat(z_value), !.halo = halo]
            /\ n_clusters' \in 1..MaxClusters
    /\ UNCHANGED <<in_vars, fs_out, flag_vars, data_vars, ids_2nn, ids_gride>>

\* Lines 227-253: the report; the script ends.
ReportStep ==
    /\ pc = "report"
    /\ pc' = "exit"
    /\ exit_code' = 0
    /\ log' = Reached("report")
    /\ UNCHANGED <<error, in_vars, fs_out, flag_vars, data_vars, est_vars>>

Next ==
    \/ ParseArgs
    \/ CheckVisualize
    \/ CheckHalo
    \/ ReadCoordinates
    \/ LoadDihelist
    \/ CalcStep
    \/ SaveTable
    \/ ReadDihe
    \/ ClipStep
    \/ RadiansStep
    \/ EstimateStep
    \/ GivenIDStep
    \/ ClusterStep
    \/ ReportStep

Spec == Init /\ [][Next]_vars

(***************************************************************************)
(* The script from a later line on, with inputs drawn from wider sets.     *)
(* Each initial state is the state the script is in at that line for a run *)
(* with default --id, --visualize, --halo and --zvalue.                    *)
(***************************************************************************)
DefaultArgs(fmt) ==
    [noargs |-> FALSE, format |-> fmt, id |-> PyInt(0), visualize |-> "False",
     halo |-> "False", zvalue |-> <<"3", ".", "5">>]

\* The state at line p of a run with format fmt: files fi and fd, the
\* coordinates read (if any), the definitions dl loaded and the time series
\* dt allocated (if any), loop index k, history lg.
Midway(p, fmt, fi, fd, coords, dl, dt, k, lg) ==
    /\ pc = p
    /\ exit_code = -1
    /\ error = ""
    /\ args = DefaultArgs(fmt)
    /\ fs_input = fi
    /\ fs_dihelist = fd
    /\ fs_out = NoFile
    /\ file_format = fmt
    /\ ID = PyInt(0)
    /\ visualize = FALSE
    /\ halo = FALSE
    /\ z_value = <<"3", ".", "5">>
    /\ coordinates = coords
    /\ nsteps = IF dt.ndim = 2 THEN Len(dt.data) ELSE Len(coords)
    /\ natoms = IF coords = <<>> THEN 0 ELSE Len(coords[1])
    /\ dihelist = dl
    /\ ndihe = IF dl.ndim = 2 THEN Len(dl.data) ELSE 0
    /\ dihetraj = dt
    /\ i = k
    /\ ids_2nn = <<>>
    /\ ids_gride = <<>>
    /\ d_dihedrals = NoData
    /\ n_clusters = 0
    /\ log = lg

LogAtRead == NoLog

LogAtDihelist == [NoLog EXCEPT !.opened = {"input"}, !.reached = {"read"}]

LogAtCalc ==
    [NoLog EXCEPT !.opened = {"input", "dihelist"}, !.reached = {"read", "dihelist"}]

\* Geometry: frames of four atoms on the grid; atom 1 at the origin, atom 2
\* along one of three directions, atoms 0 and 3 anywhere.
GeomFrames ==
    {<<A, <<0, 0, 0>>, C, D>> :
        A \in Grid, C \in {<<1, 0, 0>>, <<1, 1, 0>>, <<1, 1, 1>>}, D \in Grid}

GeomQuads == <<<<0, 1, 2, 3>>, <<3, 2, 1, 0>>>>

InitGeom ==
    \E f \in GeomFrames, extra \in SeqsUpTo({FrameTrans, FrameCis}, MaxExtraFrames) :
        LET traj == <<f>> \o extra
        IN  Midway("calc", "xyz", TrajFile(traj), IntsFile(GeomQuads), traj,
                   Array2(GeomQuads), EmptyMatrix(Len(traj), 2), 0, LogAtCalc)

NextGeom == CalcStep \/ SaveTable

SpecGeom == InitGeom /\ [][NextGeom]_vars

\* Chain expansion: definition files holding a chain of atom indices 0..3
\* (one row or one column), or two explicit quadruples.
ChainTraj == <<FrameTrans, FramePerp>>

QuadRows == {<<0, 1, 2, 3>>, <<3, 2, 1, 0>>, <<1, 0, 2, 3>>}

ChainFiles ==
    {IntsFile(AsRow(ch)) : ch \in SeqsUpTo(0..3, MaxChain)} \cup
    {IntsFile(AsColumn(ch)) : ch \in SeqsUpTo(0..3, MaxChain)} \cup
    {IntsFile(<<q1, q2>>) : q1 \in QuadRows, q2 \in QuadRows}

InitChain ==
    \E fd \in ChainFiles :
        Midway("dihelist", "xyz", TrajFile(ChainTraj), fd, ChainTraj, Unbound, Unbound, 0,
               LogAtDihelist)

NextChain == LoadDihelist \/ CalcStep \/ SaveTable

SpecChain == InitChain /\ [][NextChain]_vars

\* Table round trip: a time series of R frames and K dihedrals at line 138,
\* written, and read back by a second run with --format dihe on that file.
\* 180.00004, 270.12345 (half-way at the fourth decimal), 359.99996, nan
TableSamples == {360000080, 540246900, 719999920, NaN}

Matrices(R, K, S) == UNION {[1..r -> [1..k -> S]] : r \in 1..R, k \in 1..K}

\* A later invocation of the script: -i dihetraj.dat -f dihe.
Reinvoke ==
    /\ fs_out.exists
    /\ log.runs = 1
    /\ pc' = "read"
    /\ exit_code' = -1
    /\ error' = ""
    /\ args' = DefaultArgs("dihe")
    /\ fs_input' = TableFile(fs_out.lines)
    /\ fs_dihelist' = Missing
    /\ file_format' = "dihe"
    /\ coordinates' = <<>>
    /\ nsteps' = 0
    /\ natoms' = 0
    /\ dihelist' = Unbound
    /\ ndihe' = 0
    /\ dihetraj' = Unbound
    /\ i' = 0
    /\ log' = [NoLog EXCEPT !.runs = 2, !.saved = log.saved]
    /\ UNCHANGED <<fs_out, ID, visualize, halo, z_value, est_vars>>

InitTable ==
    \E m \in Matrices(MaxRows, MaxCols, TableSamples) :
        Midway("calc", "xyz", TrajFile(<<>>), IntsFile(<<>>), <<>>,
               Array2([k \in 1..Len(m[1]) |-> <<0, 1, 2, 3>>]), Array2(m), Len(m[1]),
               [LogAtCalc EXCEPT !.calc_calls = Len(m[1]), !.reached = @ \cup {"calc"}])

NextTable == SaveTable \/ Reinvoke \/ ReadDihe

SpecTable == InitTable /\ [][NextTable]_vars

\* Clipping: a run with --format dihe on a table of one angle column.
ClipSamples ==
    {-10000, 0, 1800, 2000, 2200, 360000000, 719997800, 719998000, 719998200,
     720000000, NaN}

InitClip ==
    \E col \in UNION {[1..n -> ClipSamples] : n \in 2..MaxClipFrames} :
        Midway("read", "dihe", TableFile(SaveTxt([r \in 1..Len(col) |-> <<col[r]>>])),
               Missing, <<>>, Unbound, Unbound, 0, LogAtRead)

NextClip == ReadDihe \/ ClipStep \/ RadiansStep

SpecClip == InitClip /\ [][NextClip]_vars

(***************************************************************************)
(* Claims                                                                  *)
(***************************************************************************)
\* Stages after the loading of the time series.
Preprocessing == {"clip", "radians", "id", "cluster", "report"}

AfterId == {"cluster", "report"}

\* The value of --id is 0, given or defaulted.
IdValueIsZero ==
    \/ args.id.kind = "int" /\ args.id.int = 0
    \/ args.id.kind = "str" /\ IsIntToken(args.id.str) /\ ParseInt(args.id.str) = 0

\* C1 (as claimed): whenever the --id value is 0, defaulted or given on the
\* command line, a run that gets past the intrinsic-dimension stage has taken
\* the auto-estimation branch: both scaling curves were requested and the
\* working dimension was derived from them.
C1_ZeroIdEstimates ==
    (~args.noargs /\ IdValueIsZero /\ pc \in AfterId)
        => /\ log.estimators = {"2NN", "GRIDE"}
           /\ "estimate" \in log.reached
           /\ ids_2nn # <<>>
           /\ ids_gride # <<>>

\* C2 (as claimed): a run whose --format is none of 'xyz', 'netcdf', 'dihe'
\* never opens the input file, never loads a dihedral matrix, never reaches
\* preprocessing, estimation or clustering, and ends in an error state.
C2_UnknownFormatFails ==
    (~args.noargs /\ args.format \notin {"xyz", "netcdf", "dihe"})
        => /\ "input" \notin log.opened
           /\ dihetraj = Unbound
           /\ pc \notin Preprocessing
           /\ log.reached \cap {"clip", "radians", "estimate", "given", "cluster"} = {}
           /\ (pc = "exit" => exit_code # 0)

BadFlag == args.visualize \notin {"True", "False"} \/ args.halo \notin {"True", "False"}

\* C3: with --visualize or --halo not 'True' or 'False' the run goes no
\* further than the two checks and ends with a message naming the flag and
\* exit status 1, having opened no file, written no table and called no
\* estimator or clusterer; with both valid, the booleans used downstream
\* (the plot gate, the halo argument of the clusterer) are true exactly when
\* the strings are 'True'.
C3_BadFlagAborts ==
    /\ (~args.noargs /\ BadFlag)
         => /\ pc \in {"start", "check_visualize", "check_halo", "exit"}
            /\ log.opened = {}
            /\ ~log.wrote
            /\ ~fs_out.exists
            /\ log.estimators = {}
            /\ d_dihedrals.state = "none"
            /\ (pc = "exit" =>
                  /\ exit_code = 1
                  /\ error = (IF args.visualize \notin {"True", "False"}
                              THEN "SystemExit: --visualize ( -v) must be 'True' or 'False'"
                              ELSE "SystemExit: --halo ( -ha) must be 'True' or 'False'"))
    /\ (~args.noargs /\ ~BadFlag /\ pc \notin {"start", "check_visualize", "check_halo"})
         => /\ visualize = (args.visualize = "True")
            /\ halo = (args.halo = "True")
            /\ ("estimate" \in log.reached => log.plotted = (args.visualize = "True"))
            /\ (d_dihedrals.state = "clustered"
                  => d_dihedrals.halo = (args.halo = "True"))

\* A run with --halo yes has ended with status 1 at the check.
C3_Witness ==
    /\ pc = "exit"
    /\ args.visualize = "True"
    /\ args.halo = "yes"
    /\ exit_code = 1
    /\ visualize

\* The larger of the minima of the two curves, from the curves themselves.
CurveMin(s) == CHOOSE x \in {s[k] : k \in 1..Len(s)} : \A k \in 1..Len(s) : x <= s[k]

LargerMin ==
    IF CurveMin(ids_2nn) >= CurveMin(ids_gride) THEN CurveMin(ids_2nn)
    ELSE CurveMin(ids_gride)

\* floor(x) of an estimate x >= 0 held in tenths
IsFloorOfTenths(n, x) == n * 10 <= x /\ x < n * 10 + 10

Estimated == "estimate" \in log.reached /\ pc \in AfterId \cup {"exit"}

\* C7 (as claimed): in auto-estimation mode the working dimension, and the
\* dimension handed to the clusterer, is floor(max(min(ids_2nn),
\* min(ids_gride))) and is a positive integer.
C7_PositiveFloor ==
    Estimated
        => /\ ID.kind = "int"
           /\ IsFloorOfTenths(ID.int, LargerMin)
           /\ ID.int >= 1
           /\ (d_dihedrals.state = "clustered" => d_dihedrals.id = ID.int)

\* C7 (amended): the working dimension, and the dimension handed to the
\* clusterer, is floor(max(min(ids_2nn), min(ids_gride))); it is an integer
\* >= 0, and it is positive exactly when the larger minimum is at least 1.
C7_Floor ==
    Estimated
        => /\ ID.kind = "int"
           /\ IsFloorOfTenths(ID.int, LargerMin)
           /\ ID.int >= 0
           /\ (ID.int >= 1 <=> LargerMin >= 10)
           /\ (d_dihedrals.state = "clustered" => d_dihedrals.id = ID.int)

\* Minima 3.0 and 4.2 were estimated and 4 was handed to the clusterer.
C7_Witness ==
    /\ Estimated
    /\ CurveMin(ids_2nn) = 30
    /\ CurveMin(ids_gride) = 42
    /\ d_dihedrals.state = "clustered"
    /\ d_dihedrals.id = 4

\* C10: a run with format 'dihe' never calls calculate_dihedral, never
\* opens the --dihelist file and never writes 'dihetraj.dat'; a run with
\* format 'xyz' or 'netcdf' that has reached preprocessing has read the
\* definition file, has called calculate_dihedral once per definition and
\* has written the table.
C10_ExtractionOnlyForCoordinates ==
    /\ (~args.noargs /\ args.format = "dihe")
         => /\ log.calc_calls = 0
            /\ "dihelist" \notin log.opened
            /\ ~log.wrote
            /\ ~fs_out.exists
    /\ (~args.noargs /\ args.format \in {"xyz", "netcdf"}
          /\ (pc \in Preprocessing \/ "clip" \in log.reached))
         => /\ "dihelist" \in log.opened
            /\ dihelist.ndim = 2
            /\ log.calc_calls = Len(dihelist.data)
            /\ log.wrote
            /\ fs_out.exists
            /\ Len(fs_out.lines) = nsteps

\* A netcdf run with two definitions is about to clip, after two calls.
C10_Witness ==
    /\ args.format = "netcdf"
    /\ pc = "clip"
    /\ log.calc_calls = 2
    /\ fs_out.exists

\* The normals of lines 23-24 for the atoms q of a frame.
Normal1(step, q) ==
    Cross(VSub(AtomAt(step, q[2]), AtomAt(step, q[1])),
          VSub(AtomAt(step, q[3]), AtomAt(step, q[2])))

Normal2(step, q) ==
    Cross(VSub(AtomAt(step, q[3]), AtomAt(step, q[2])),
          VSub(AtomAt(step, q[4]), AtomAt(step, q[3])))

Zero3 == <<0, 0, 0>>

NonDegenerate(step, q) == Normal1(step, q) # Zero3 /\ Normal2(step, q) # Zero3

\* Planar trans: both normals are non-zero and antiparallel.
PlanarTrans(step, q) ==
    /\ NonDegenerate(step, q)
    /\ Cross(Normal1(step, q), Normal2(step, q)) = Zero3
    /\ Dot(Normal1(step, q), Normal2(step, q)) < 0

\* The entries of the time series that calculate_dihedral has returned so
\* far: (frame, column) with column < i.
Computed == {<<r, c>> \in (1..nsteps) \X (1..ndihe) : c <= i}

Tolerance == DEG \div 100

\* C4 (as claimed): every value calculate_dihedral returns for a frame of
\* non-degenerate geometry, and so every such entry of the time series, is
\* a number in [0 deg, 360 deg): >= 0 and strictly below 360.
C4_HalfOpenRange ==
    \A e \in Computed :
        NonDegenerate(coordinates[e[1]], dihelist.data[e[2]])
            => LET v == dihetraj.data[e[1]][e[2]]
               IN  v # NaN /\ 0 <= v /\ v < 360 * DEG

\* C4 (amended): every such value is a number in the closed range
\* [0 deg, 360 deg]: >= 0 and <= 360; the bound 360 is attained.
C4_ClosedRange ==
    \A e \in Computed :
        NonDegenerate(coordinates[e[1]], dihelist.data[e[2]])
            => LET v == dihetraj.data[e[1]][e[2]]
               IN  v # NaN /\ 0 <= v /\ v <= 360 * DEG

\* A frame of non-degenerate geometry, planar trans with antiparallel
\* normals, for which exactly 360 deg was returned.
C4_Witness ==
    \E e \in Computed :
        /\ PlanarTrans(coordinates[e[1]], dihelist.data[e[2]])
        /\ dihetraj.data[e[1]][e[2]] = 360 * DEG

\* C5 (as claimed): for a planar trans arrangement (normals antiparallel)
\* calculate_dihedral returns 180 deg within tolerance.
C5_TransIs180 ==
    \A e \in Computed :
        PlanarTrans(coordinates[e[1]], dihelist.data[e[2]])
            => Abs(dihetraj.data[e[1]][e[2]] - 180 * DEG) <= Tolerance

\* C5 (amended): for a planar trans arrangement calculate_dihedral returns
\* 360 deg within tolerance: the 180 deg between the normals plus the
\* constant 180 deg of line 33.
C5_TransIs360 ==
    \A e \in Computed :
        PlanarTrans(coordinates[e[1]], dihelist.data[e[2]])
            => Abs(dihetraj.data[e[1]][e[2]] - 360 * DEG) <= Tolerance

\* The loop has computed a column for a first frame that is planar trans
\* with normals that are not along an axis.
C5_Witness ==
    /\ i >= 1
    /\ PlanarTrans(coordinates[1], dihelist.data[1])
    /\ Normal1(coordinates[1], dihelist.data[1])[1] # 0
    /\ Normal1(coordinates[1], dihelist.data[1])[2] # 0

\* The definition file holds a chain: one row or one column of at least two
\* integers (np.loadtxt then returns a 1-D array).
IsChainFile(rows) ==
    \/ Len(rows) = 1 /\ Len(rows[1]) >= 2
    \/ Len(rows) >= 2 /\ \A r \in 1..Len(rows) : Len(rows[r]) = 1

ChainOf(rows) ==
    IF rows = <<>> THEN <<>>
    ELSE IF Len(rows) = 1 THEN rows[1]
    ELSE [r \in 1..Len(rows) |-> rows[r][1]]

\* The definitions are the n - 3 windows of the chain, in order, and the
\* time series and the written table have n - 3 angle columns.
ExpandedAsWindows(chain) ==
    /\ error = ""
    /\ dihelist.ndim = 2
    /\ Len(dihelist.data) = Len(chain) - 3
    /\ \A k \in 0..(Len(chain) - 4) :
          dihelist.data[k + 1] = <<chain[k + 1], chain[k + 2], chain[k + 3], chain[k + 4]>>
    /\ ndihe = Len(chain) - 3
    /\ \A r \in 1..Len(dihetraj.data) : Len(dihetraj.data[r]) = Len(chain) - 3
    /\ (fs_out.exists =>
          \A r \in 1..Len(fs_out.lines) : Len(Split(fs_out.lines[r])) = Len(chain) - 2)

IsQuadFile(rows) == Len(rows) >= 2 /\ \A r \in 1..Len(rows) : Len(rows[r]) = 4

\* C6 (as claimed): a definition file that parses to a 1-D chain of any
\* length n gives n - 3 definitions, the windows of the chain in order, and
\* n - 3 columns; a 2-D list of quadruples is used unchanged.
C6_AnyLength ==
    /\ (pc # "dihelist" /\ IsChainFile(fs_dihelist.rows))
          => ExpandedAsWindows(ChainOf(fs_dihelist.rows))
    /\ (pc # "dihelist" /\ IsQuadFile(fs_dihelist.rows))
          => error = "" /\ dihelist.data = fs_dihelist.rows

\* C6 (amended): the same for a chain of length n >= 3; a shorter chain
\* ends the run with an error at line 128.
C6_LengthAtLeast3 ==
    /\ (pc # "dihelist" /\ IsChainFile(fs_dihelist.rows) /\ Len(ChainOf(fs_dihelist.rows)) >= 3)
          => ExpandedAsWindows(ChainOf(fs_dihelist.rows))
    /\ (pc # "dihelist" /\ IsChainFile(fs_dihelist.rows) /\ Len(ChainOf(fs_dihelist.rows)) < 3)
          => pc = "exit" /\ exit_code = 1 /\ log.calc_calls = 0
    /\ (pc # "dihelist" /\ IsQuadFile(fs_dihelist.rows))
          => error = "" /\ dihelist.data = fs_dihelist.rows

\* A chain of five atoms in one column was expanded to two definitions and
\* the table was written.
C6_Witness ==
    /\ fs_dihelist.rows = AsColumn(<<0, 1, 2, 3, 0>>)
    /\ dihelist.ndim = 2
    /\ dihelist.data = <<<<0, 1, 2, 3>>, <<1, 2, 3, 0>>>>
    /\ fs_out.exists

\* Element (r, c) of an R x K matrix as np.loadtxt returned it.
Reloaded(a, r, c, K) ==
    IF a.ndim = 2 THEN a.data[r][c]
    ELSE IF a.ndim = 0 THEN a.data[1]
    ELSE IF K = 1 THEN a.data[r] ELSE a.data[c]

\* Equal within the rounding of 4 decimals (half of 1e-4 degree).
Close(x, y) == IF x = NaN \/ y = NaN THEN x = y ELSE Abs(x - y) <= UnitsPer4 \div 2

\* C8 (as claimed): a matrix of at least one frame and one dihedral that was
\* written and reloaded through the 'dihe' path gives the same nsteps, the
\* same ndihe and the same values within the rounding of 4 decimals.
C8_RoundTrip ==
    (log.runs = 2 /\ pc # "read")
        => LET R == Len(log.saved)
               K == Len(log.saved[1])
           IN  /\ error = ""
               /\ ndihe = K
               /\ nsteps = R
               /\ \A r \in 1..R, c \in 1..K :
                     Close(Reloaded(dihetraj, r, c, K), log.saved[r][c])

\* Values of an array, by position.
Flat(a) ==
    IF a.ndim = 2 THEN {<<r, c, a.data[r][c]>> : r \in 1..Len(a.data), c \in 1..Len(a.data[1])}
    ELSE {<<k, 1, a.data[k]>> : k \in 1..Len(a.data)}

Before(e) == CHOOSE b \in Flat(log.preclip) : b[1] = e[1] /\ b[2] = e[2]

\* C9 (as claimed): after the clip every numeric value v satisfies
\* 0.001 < v < 359.999, and a value that was inside the interval is
\* unchanged.
C9_OpenInterval ==
    pc = "radians"
        => \A e \in Flat(dihetraj) :
              Before(e)[3] # NaN
                 => /\ 2000 < e[3] /\ e[3] < 719998000
                    /\ (2000 < Before(e)[3] /\ Before(e)[3] < 719998000 => e[3] = Before(e)[3])

\* C9 (amended): after the clip every numeric value v satisfies
\* 0.001 <= v <= 359.999, both bounds being attained; a value inside the
\* closed interval is unchanged, a smaller one becomes 0.001 and a larger
\* one 359.999.
C9_ClosedInterval ==
    pc = "radians"
        => \A e \in Flat(dihetraj) :
              Before(e)[3] # NaN
                 => /\ 2000 <= e[3] /\ e[3] <= 719998000
                    /\ (2000 <= Before(e)[3] /\ Before(e)[3] <= 719998000 => e[3] = Before(e)[3])
                    /\ (Before(e)[3] < 2000 => e[3] = 2000)
                    /\ (Before(e)[3] > 719998000 => e[3] = 719998000)

\* The values 0 and 360 were clipped to the two bounds.
C9_Witness ==
    /\ pc = "radians"
    /\ <<1, 1, 0>> \in Flat(log.preclip)
    /\ <<1, 1, 2000>> \in Flat(dihetraj)
    /\ <<2, 1, 720000000>> \in Flat(log.preclip)
    /\ <<2, 1, 719998000>> \in Flat(dihetraj)
====
